---- MODULE Spec2Model ----
(***************************************************************************)
(* FastPKI: the certificate store (certificate_authorities, certificates,  *)
(* crl_entries) and the request handlers that issue, revoke, delete and    *)
(* export certificates.  A handler is cut at the points where it awaits    *)
(* the database: everything between two awaits is one step.  Spec runs     *)
(* one request at a time; SpecConc runs the requests of two workers        *)
(* interleaved; SpecIssue issues and reads with every kind of request and  *)
(* a longer clock; SpecSerial issues with two serial numbers to draw;      *)
(* SpecAuthority creates authorities from several subject strings;         *)
(* SpecOrphan deletes an authority while a certificate is issued under it. *)
(* The accounts (users, organizations) and the handlers that create users  *)
(* and organizations and move users between organizations run one request  *)
(* at a time in SpecAccounts and interleaved in SpecAccountsConc.          *)
(***************************************************************************)
EXTENDS Integers, Sequences, FiniteSets, TLC

\* ------------------------------------------------------------- bounds
\* MaxKeys, MaxKeysConc: key pairs generated in a run of Spec, of SpecConc (every
\* authority and every certificate takes one).  MaxTime: ticks of the clock.
\* MaxCRL: revocations.  MaxChain: blocks a chain export is followed to; a store
\* of MaxKeys rows has no chain that long unless a certificate repeats in it.
MaxKeys == 3
MaxKeysConc == 2
MaxTime == 1
MaxCRL == 2
MaxChain == 4
\* MaxKeysIssue, MaxTimeIssue: the key pairs and the clock of SpecIssue, where the
\* clock passes the not_after of a certificate issued for one day.
MaxKeysIssue == 2
MaxTimeIssue == 2

\* MaxUsers: the rows of users.  MaxOrgs: the ids given to organizations (a new
\* row takes the id after the largest in use).
MaxUsers == 2
MaxOrgs == 2

\* ------------------------------------------------------------- constants
\* Python None: for a row or a record, for a timestamp or an id, for a string
None == [none |-> TRUE]
NoTime == -1
NoReason == "None"
Procs == {1, 2}
\* the values x509.random_serial_number() is drawn from, cut to two
Serials == {10, 27}
CertificateType == {"ca", "server", "client"}
Reasons == {NoReason}
\* the certificate types requested: an intermediate and a leaf
SeqTypes == {"ca", "server"}
\* the requests of two workers at once: leaf certificates; and the one serial
\* drawn in the runs that are not about serial numbers
ConcTypes == {"server"}
ConcSerials == {10}
\* an Optional[int] of a request: <<>> for None, <<n>> for n
NoDays == <<>>
\* settings.CERT_DAYS
CERT_DAYS == 365
\* the valid_days requested of SpecIssue: none, zero, one day, a negative number
IssueDays == {NoDays, <<0>>, <<1>>, <<-1>>}
\* the key pairs of the runs of SpecOrphan
MaxKeysOrphan == 3
\* UserRole
UserRole == {"superuser", "admin", "user"}
\* an Optional[UserRole] that is None
NoRole == "None"
\* an Optional[int] that is None: organization_id, admin_user_id, the user of
\* a token
NoId == <<>>
\* the username and email of a UserCreate
Logins == {[username |-> "alice", email |-> "alice@example.com"], [username |-> "bob", email |-> "bob@example.com"]}
\* the name of an OrganizationCreate
OrgNames == {"Acme", "Umbrella"}
\* the names given to authorities
Names == {"Root", "Other"}
\* the subject_dn of the runs that are not about names
RootDN == "CN=Root"
\* the subject_dn given to authorities in SpecAuthority: in the order the parser
\* emits, in another order with a blank after the comma, with a key twice,
\* with no recognized key, with no "=" at all
SubjectDNs == {"CN=Root,O=Acme", "O=Acme, CN=Root", "OU=a,OU=b", "X=1", "Root"}

VARIABLES
    cas,      \* table certificate_authorities: id -> row
    certs,    \* table certificates: id -> row
    crl,      \* table crl_entries, in insertion order
    now,      \* datetime.now(UTC)
    nextKey,  \* the next key pair rsa.generate_private_key produces
    pc,       \* per worker: where its request stands
    req,      \* per worker: the request it serves
    loc,      \* per worker: the handler's local variables
    res,      \* per worker: the response
    users,    \* table users: id -> row
    orgs      \* table organizations: id -> row

vars == <<cas, certs, crl, now, nextKey, pc, req, loc, res, users, orgs>>
store == <<cas, certs, crl>>
pki == <<cas, certs, crl, now, nextKey>>

\* ------------------------------------------------------------- helpers
Max(S) == CHOOSE m \in S : \A x \in S : x <= m

\* SQLite rowid of a new row: one more than the largest in use
NextId(table) == IF DOMAIN table = {} THEN 1 ELSE Max(DOMAIN table) + 1

\* a write that keeps no other row
PutOnly(table, id, row) == [i \in {id} |-> row]

Put(table, id, row) == [i \in DOMAIN table \cup {id} |-> IF i = id THEN row ELSE table[i]]

Drop(table, ids) == [i \in DOMAIN table \ ids |-> table[i]]

\* a lookup that answers with the last row when the id names none
GetNearest(table, id) ==
    IF id \in DOMAIN table THEN table[id]
    ELSE IF DOMAIN table = {} THEN None
    ELSE table[Max(DOMAIN table)]

\* db.get(Model, id)
Get(table, id) == IF id \in DOMAIN table THEN table[id] ELSE None

HexDigit(d) == SubSeq("0123456789abcdef", d + 1, d + 1)

RECURSIVE Hex(_)
\* format(serial_number, 'x')
Hex(n) == IF n < 16 THEN HexDigit(n) ELSE Hex(n \div 16) \o HexDigit(n % 16)

\* the character "\n" of an exported text, whose other parts are PEM blocks
Newline == [kind |-> "\n"]

RECURSIVE Join(_)
\* "\n".join(chain)
Join(chain) ==
    IF Len(chain) = 0 THEN <<>>
    ELSE IF Len(chain) = 1 THEN <<chain[1]>>
    ELSE <<chain[1], Newline>> \o Join(Tail(chain))

\* the PEM blocks of an exported text
PemBlocks(text) == SelectSeq(text, LAMBDA t : t /= Newline)

\* private_key.private_bytes(PEM, PKCS8, NoEncryption)
PrivateKeyPem(k) == [kind |-> "PRIVATE KEY", key |-> k]

\* cert_builder.sign(...).public_bytes(PEM)
CertificatePem(serial, pub, signer, isCA, extensions) ==
    [kind |-> "CERTIFICATE", serial |-> serial, public_key |-> pub,
     signed_by |-> signer, ca |-> isCA, extensions |-> extensions]

\* Python's  value or default  on an Optional[int]: None and 0 are both falsy
Or(value, default) ==
    IF value = <<>> THEN default
    ELSE IF value[1] = 0 THEN default
    ELSE value[1]

Idle(p) == pc[p] = "idle"

Finish(p, response) ==
    /\ pc' = [pc EXCEPT ![p] = "done"]
    /\ res' = [res EXCEPT ![p] = response]
    /\ loc' = [loc EXCEPT ![p] = None]

\* an answer of success with nothing in it
NotFoundAsOk == [status |-> 200, body |-> None]

\* HTTPException(status_code=404)
NotFound == [status |-> 404, body |-> None]
Ok(code, body) == [status |-> code, body |-> body]

\* ------------------------------------------------------------- parse_subject_dn
Char(s, i) == SubSeq(s, i, i)

RECURSIVE Find(_, _, _)
\* the first index of the character c in s from i on, 0 if there is none
Find(s, c, i) ==
    IF i > Len(s) THEN 0
    ELSE IF Char(s, i) = c THEN i
    ELSE Find(s, c, i + 1)

RECURSIVE Split(_, _)
\* s.split(c)
Split(s, c) ==
    LET i == Find(s, c, 1) IN
    IF i = 0 THEN <<s>>
    ELSE <<SubSeq(s, 1, i - 1)>> \o Split(SubSeq(s, i + 1, Len(s)), c)

RECURSIVE Strip(_)
\* s.strip(), for the blank
Strip(s) ==
    IF Len(s) = 0 THEN s
    ELSE IF Char(s, 1) = " " THEN Strip(SubSeq(s, 2, Len(s)))
    ELSE IF Char(s, Len(s)) = " " THEN Strip(SubSeq(s, 1, Len(s) - 1))
    ELSE s

\* part.strip().split("=", 1), key and value stripped; ok is FALSE where the
\* unpacking into key, value raises ValueError
Segment(part) ==
    LET t == Strip(part)
        i == Find(t, "=", 1)
    IN IF i = 0 THEN [ok |-> FALSE, key |-> "", value |-> ""]
       ELSE [ok |-> TRUE, key |-> Strip(SubSeq(t, 1, i - 1)),
             value |-> Strip(SubSeq(t, i + 1, Len(t)))]

\* the segments of a subject_dn, in the order of the string
Segments(subject_dn) ==
    LET split == Split(subject_dn, ",") IN
    [i \in 1 .. Len(split) |-> Segment(split[i])]

\* the dict parts: a key has the value of the last segment that has the key
Parts(segments) ==
    LET keys == {segments[i].key : i \in 1 .. Len(segments)} IN
    [k \in keys |->
        segments[Max({i \in 1 .. Len(segments) : segments[i].key = k})].value]

\* the order of the if statements that append the name attributes
NameOIDs == <<"CN", "O", "OU", "C", "ST", "L">>

RECURSIVE Attributes(_, _)
\* name_attributes: for each key of NameOIDs from the i-th on that is in parts,
\* in that order, the attribute with its value
Attributes(parts, i) ==
    IF i > Len(NameOIDs) THEN <<>>
    ELSE (IF NameOIDs[i] \in DOMAIN parts
          THEN <<[oid |-> NameOIDs[i], value |-> parts[NameOIDs[i]]]>>
          ELSE <<>>) \o Attributes(parts, i + 1)

\* parse_subject_dn: the x509.Name, or ok FALSE for the ValueError of a
\* segment without "="
ParseSubjectDN(subject_dn) ==
    LET segments == Segments(subject_dn) IN
    IF \E i \in 1 .. Len(segments) : ~segments[i].ok
    THEN [ok |-> FALSE, name |-> <<>>]
    ELSE [ok |-> TRUE, name |-> Attributes(Parts(segments), 1)]

\* ------------------------------------------------------------- Init
Init ==
    /\ cas = <<>>
    /\ certs = <<>>
    /\ crl = <<>>
    /\ now = 0
    /\ nextKey = 1
    /\ pc = [p \in Procs |-> "idle"]
    /\ req = [p \in Procs |-> None]
    /\ loc = [p \in Procs |-> None]
    /\ res = [p \in Procs |-> None]
    /\ users = <<>>
    /\ orgs = <<>>

\* ------------------------------------------------------------- create_ca
\* the extensions create_ca adds: BasicConstraints(ca=True), KeyUsage with its
\* bits set, SubjectKeyIdentifier.from_public_key.  An extension that is not
\* added is the empty set or the empty sequence.
AuthorityExtensions(k) ==
    [basic_constraints |-> TRUE,
     key_usage |-> {"digital_signature", "key_cert_sign", "crl_sign"},
     extended_key_usage |-> {},
     subject_key_identifier |-> <<k>>,
     authority_key_identifier |-> <<>>]

\* a certificate that names no issuer
AuthorityPemNoIssuer(k, subject) ==
    [kind |-> "CERTIFICATE", public_key |-> k, signed_by |-> k, ca |-> TRUE,
     subject |-> subject, issuer |-> <<>>,
     extensions |-> AuthorityExtensions(k)]

\* the self-signed certificate: subject_name(subject), issuer_name(subject),
\* public_key and sign with the one key pair; its own random serial number,
\* which nothing in the store refers to, is left out
AuthorityPem(k, subject) ==
    [kind |-> "CERTIFICATE", public_key |-> k, signed_by |-> k, ca |-> TRUE,
     subject |-> subject, issuer |-> subject,
     extensions |-> AuthorityExtensions(k)]

CARow(id, name, subject_dn, k) ==
    [id |-> id,
     name |-> name,
     subject_dn |-> subject_dn,
     private_key |-> PrivateKeyPem(k),
     certificate |-> AuthorityPem(k, ParseSubjectDN(subject_dn).name)]

\* create_ca: the key pair is generated, then the subject is parsed; the API
\* answers any exception with 400
CreateCA(p, name, subject_dn, keys) ==
    /\ Idle(p)
    /\ nextKey <= keys
    /\ req' = [req EXCEPT ![p] = [op |-> "create_ca", name |-> name,
                                  subject_dn |-> subject_dn]]
    /\ IF ~ParseSubjectDN(subject_dn).ok
       THEN /\ Finish(p, [status |-> 400, body |-> None])
            /\ UNCHANGED cas
       ELSE LET row == CARow(NextId(cas), name, subject_dn, nextKey) IN
            /\ cas' = Put(cas, row.id, row)
            /\ Finish(p, Ok(201, row))
    /\ nextKey' = nextKey + 1
    /\ UNCHANGED <<certs, crl, now, users, orgs>>

\* ------------------------------------------------------------- create_certificate
\* x509.KeyUsage(digital_signature=True, key_encipherment=True,
\* key_cert_sign=(type == CA), crl_sign=(type == CA), the others False)
KeyUsage(certificate_type) ==
    {"digital_signature", "key_encipherment"}
        \cup (IF certificate_type = "ca" THEN {"key_cert_sign", "crl_sign"} ELSE {})

\* an extended key usage that is serverAuth for every leaf
ExtendedKeyUsagesServerAuth(certificate_type) ==
    IF certificate_type = "ca" THEN {} ELSE {"serverAuth"}

\* extended_key_usages; the extension is added only if the list is not empty
ExtendedKeyUsages(certificate_type) ==
    IF certificate_type = "server" THEN {"serverAuth"}
    ELSE IF certificate_type = "client" THEN {"clientAuth"}
    ELSE {}

\* the extensions create_certificate adds, for a key k, under the certificate
\* ca_cert of the authority
CertificateExtensions(certificate_type, k, ca_cert) ==
    [basic_constraints |-> (certificate_type = "ca"),
     key_usage |-> KeyUsage(certificate_type),
     extended_key_usage |-> ExtendedKeyUsages(certificate_type),
     subject_key_identifier |-> <<k>>,
     authority_key_identifier |-> ca_cert.extensions.subject_key_identifier]

\* a private key stored whatever include_private_key says
StoredPrivateKeyAlways(include_private_key, k) == PrivateKeyPem(k)

\* private_key_pem: the generated key's PEM if include_private_key, None if not
StoredPrivateKey(include_private_key, k) ==
    IF include_private_key THEN PrivateKeyPem(k) ELSE None

\* now + timedelta(days=valid_days)
NotAfter(t, valid_days) == t + valid_days

CertRow(id, ca_id, ca, certificate_type, k, serial, valid_days, include_private_key, t) ==
    [id |-> id,
     certificate_type |-> certificate_type,
     valid_days |-> valid_days,
     status |-> "valid",
     private_key |-> StoredPrivateKey(include_private_key, k),
     certificate |-> CertificatePem(serial, k, ca.private_key.key,
                                    certificate_type = "ca",
                                    CertificateExtensions(certificate_type, k,
                                                          ca.certificate)),
     serial_number |-> Hex(serial),
     not_before |-> t,
     not_after |-> NotAfter(t, valid_days),
     revoked_at |-> NoTime,
     issuer_id |-> ca_id]

\* db.get(CertificateAuthority, ca_id) up to db.add(cert).  A key pair is
\* generated before the validity is set; CertificateBuilder.not_valid_after
\* raises ValueError for a time before not_valid_before, which the API answers
\* as it answers the missing authority.
CreateCertificateBuild(p, ca_id, certificate_type, serials, keys, days, include) ==
    /\ Idle(p)
    /\ \E requested \in days, include_private_key \in include :
        LET ca == Get(cas, ca_id)
            valid_days == Or(requested, CERT_DAYS)
        IN
        /\ req' = [req EXCEPT ![p] = [op |-> "create_certificate", ca_id |-> ca_id,
                                      certificate_type |-> certificate_type,
                                      valid_days |-> requested,
                                      include_private_key |-> include_private_key]]
        /\ IF ca = None
           THEN /\ Finish(p, NotFound)
                /\ UNCHANGED nextKey
           ELSE /\ nextKey <= keys
                /\ nextKey' = nextKey + 1
                /\ IF NotAfter(now, valid_days) < now
                   THEN Finish(p, NotFound)
                   ELSE /\ \E serial \in serials :
                            loc' = [loc EXCEPT ![p] =
                                CertRow(0, ca_id, ca, certificate_type, nextKey,
                                        serial, valid_days, include_private_key, now)]
                        /\ pc' = [pc EXCEPT ![p] = "create_certificate_commit"]
                        /\ UNCHANGED res
    /\ UNCHANGED <<cas, certs, crl, now, users, orgs>>

\* db.commit(), db.refresh(cert)
CreateCertificateCommit(p) ==
    /\ pc[p] = "create_certificate_commit"
    /\ LET row == [loc[p] EXCEPT !.id = NextId(certs)] IN
        /\ certs' = Put(certs, row.id, row)
        /\ Finish(p, Ok(201, row))
    /\ UNCHANGED <<cas, crl, now, nextKey, req, users, orgs>>

\* ------------------------------------------------------------- delete_ca
\* a relationship without the delete cascade
CascadeNone(ca_id) == {}

\* CertificateAuthority.certificates, cascade "all, delete-orphan": the rows
\* the authority's deletion takes with it
Cascade(ca_id) == {c \in DOMAIN certs : certs[c].issuer_id = ca_id}

\* db.get(CertificateAuthority, ca_id), then db.delete(ca), which loads
\* ca.certificates to cascade over them
DeleteCALoad(p, ca_id) ==
    /\ Idle(p)
    /\  /\ req' = [req EXCEPT ![p] = [op |-> "delete_ca", ca_id |-> ca_id]]
        /\ IF Get(cas, ca_id) = None
           THEN Finish(p, NotFound)
           ELSE /\ loc' = [loc EXCEPT ![p] = [certificates |-> Cascade(ca_id)]]
                /\ pc' = [pc EXCEPT ![p] = "delete_ca_commit"]
                /\ UNCHANGED res
    /\ UNCHANGED <<cas, certs, crl, now, nextKey, users, orgs>>

\* db.commit(): deletes the loaded certificates and the authority by primary key
DeleteCACommit(p) ==
    /\ pc[p] = "delete_ca_commit"
    /\ certs' = Drop(certs, loc[p].certificates)
    /\ cas' = Drop(cas, {req[p].ca_id})
    /\ Finish(p, Ok(204, None))
    /\ UNCHANGED <<crl, now, nextKey, req, users, orgs>>

\* ------------------------------------------------------------- revoke_certificate
\* an entry built before the certificate's revoked_at is set
CRLEntryUndated(cert, reason) ==
    [serial_number |-> cert.serial_number,
     revocation_date |-> NoTime,
     reason |-> reason,
     ca_id |-> cert.issuer_id]

\* an entry filed under the first authority
CRLEntryFirstAuthority(cert, reason) ==
    [serial_number |-> cert.serial_number,
     revocation_date |-> cert.revoked_at,
     reason |-> reason,
     ca_id |-> 1]

\* CRLEntry(serial_number=cert.serial_number, revocation_date=cert.revoked_at, ...)
CRLEntry(cert, reason) ==
    [serial_number |-> cert.serial_number,
     revocation_date |-> cert.revoked_at,
     reason |-> reason,
     ca_id |-> cert.issuer_id]

\* a revocation that writes the timestamp and not the status
RevokedKeepsStatus(cert, t) == [cert EXCEPT !.revoked_at = t]

\* a revocation that writes the status and not the timestamp
RevokedNoTimestamp(cert, t) == [cert EXCEPT !.status = "revoked"]

\* cert.status = REVOKED; cert.revoked_at = datetime.now(UTC)
Revoked(cert, t) == [cert EXCEPT !.status = "revoked", !.revoked_at = t]

\* the revocations in flight, which will each add a crl entry
Revoking == {q \in Procs : pc[q] = "revoke_certificate_commit"}

\* db.get(Certificate, cert_id) up to db.add(crl_entry)
RevokeCertificateLoad(p, cert_id, reason) ==
    /\ Idle(p)
    /\ LET cert == Get(certs, cert_id) IN
        /\ req' = [req EXCEPT ![p] = [op |-> "revoke_certificate", cert_id |-> cert_id,
                                      reason |-> reason]]
        /\ IF cert = None
           THEN Finish(p, NotFound)
           ELSE /\ Len(crl) + Cardinality(Revoking) < MaxCRL
                /\ loc' = [loc EXCEPT ![p] =
                    [cert |-> Revoked(cert, now),
                     crl_entry |-> CRLEntry(Revoked(cert, now), reason)]]
                /\ pc' = [pc EXCEPT ![p] = "revoke_certificate_commit"]
                /\ UNCHANGED res
    /\ UNCHANGED <<cas, certs, crl, now, nextKey, users, orgs>>

\* db.commit(): UPDATE of the certificate's row by primary key (StaleDataError
\* and rollback when the row is gone), INSERT of the crl entry; db.refresh(cert)
RevokeCertificateCommit(p) ==
    /\ pc[p] = "revoke_certificate_commit"
    /\ LET id == req[p].cert_id IN
        IF id \notin DOMAIN certs
        THEN /\ Finish(p, [status |-> 500, body |-> None])
             /\ UNCHANGED <<certs, crl>>
        ELSE /\ certs' = [certs EXCEPT ![id].status = loc[p].cert.status,
                                       ![id].revoked_at = loc[p].cert.revoked_at]
             /\ crl' = Append(crl, loc[p].crl_entry)
             /\ Finish(p, Ok(200, certs'[id]))
    /\ UNCHANGED <<cas, now, nextKey, req, users, orgs>>

\* ------------------------------------------------------------- get_certificate
GetCertificate(p, cert_id) ==
    /\ Idle(p)
    /\  /\ req' = [req EXCEPT ![p] = [op |-> "get_certificate", cert_id |-> cert_id]]
        /\ IF Get(certs, cert_id) = None
           THEN Finish(p, NotFound)
           ELSE Finish(p, Ok(200, certs[cert_id]))
    /\ UNCHANGED <<cas, certs, crl, now, nextKey, users, orgs>>

\* ------------------------------------------------------------- export_ca_certificate
ExportCACertificate(p, ca_id) ==
    /\ Idle(p)
    /\ LET ca == Get(cas, ca_id) IN
        /\ req' = [req EXCEPT ![p] = [op |-> "export_ca_certificate", ca_id |-> ca_id]]
        /\ IF ca = None
           THEN Finish(p, NotFound)
           ELSE Finish(p, Ok(200, ca.certificate))
    /\ UNCHANGED <<cas, certs, crl, now, nextKey, users, orgs>>

\* ------------------------------------------------------------- export_certificate_private_key
ExportCertificatePrivateKey(p, cert_id) ==
    /\ Idle(p)
    /\ LET cert == Get(certs, cert_id) IN
        /\ req' = [req EXCEPT ![p] = [op |-> "export_certificate_private_key",
                                      cert_id |-> cert_id]]
        /\ IF cert = None
           THEN Finish(p, NotFound)
           ELSE IF cert.private_key = None
           THEN Finish(p, NotFound)
           ELSE Finish(p, Ok(200, cert.private_key))
    /\ UNCHANGED <<cas, certs, crl, now, nextKey, users, orgs>>

\* ------------------------------------------------------------- export_certificate_chain
\* CertificateService.get_certificate(db, cert_id) up to the while loop
ExportChainLoad(p, cert_id) ==
    /\ Idle(p)
    /\ LET cert == Get(certs, cert_id) IN
        /\ req' = [req EXCEPT ![p] = [op |-> "export_certificate_chain",
                                      cert_id |-> cert_id]]
        /\ IF cert = None
           THEN Finish(p, NotFound)
           ELSE /\ loc' = [loc EXCEPT ![p] =
                    [chain |-> <<cert.certificate>>,
                     current_issuer_id |-> cert.issuer_id]]
                /\ pc' = [pc EXCEPT ![p] = "export_chain_loop"]
                /\ UNCHANGED res
    /\ UNCHANGED <<cas, certs, crl, now, nextKey, users, orgs>>

\* what an issuer id resolves to: an authority first, a certificate otherwise
ResolveIssuer(id) ==
    IF Get(cas, id) /= None THEN [kind |-> "authority", id |-> id]
    ELSE IF Get(certs, id) /= None THEN [kind |-> "certificate", id |-> id]
    ELSE None

\* a loop that breaks at the authority before appending its certificate
ChainTurnDropsAuthority(chain, id) ==
    LET issuer == ResolveIssuer(id) IN
    IF issuer = None \/ issuer.kind = "authority"
    THEN [chain |-> chain, current_issuer_id |-> id, break |-> TRUE]
    ELSE [chain |-> Append(chain, certs[id].certificate),
          current_issuer_id |-> certs[id].issuer_id, break |-> FALSE]

\* a loop that answers with nothing when the issuer is not found
ChainTurnDropsPartial(chain, id) ==
    LET issuer == ResolveIssuer(id) IN
    IF issuer = None
    THEN [chain |-> <<>>, current_issuer_id |-> id, break |-> TRUE]
    ELSE IF issuer.kind = "authority"
    THEN [chain |-> Append(chain, cas[id].certificate),
          current_issuer_id |-> id, break |-> TRUE]
    ELSE [chain |-> Append(chain, certs[id].certificate),
          current_issuer_id |-> certs[id].issuer_id, break |-> FALSE]

\* the body of the while loop: the chain and the issuer id after it, and
\* whether it left the loop
ChainTurn(chain, id) ==
    LET issuer == ResolveIssuer(id) IN
    IF issuer = None
    THEN [chain |-> chain, current_issuer_id |-> id, break |-> TRUE]
    ELSE IF issuer.kind = "authority"
    THEN [chain |-> Append(chain, cas[id].certificate),
          current_issuer_id |-> id, break |-> TRUE]
    ELSE [chain |-> Append(chain, certs[id].certificate),
          current_issuer_id |-> certs[id].issuer_id, break |-> FALSE]

\* one turn of the while loop, and the response when it breaks.  The code sets
\* no limit on the turns; the model follows a traversal for MaxChain turns.
ExportChainLoop(p) ==
    /\ pc[p] = "export_chain_loop"
    /\ Len(loc[p].chain) <= MaxChain
    /\ LET turn == ChainTurn(loc[p].chain, loc[p].current_issuer_id) IN
        IF turn.break
        THEN Finish(p, Ok(200, Join(turn.chain)))
        ELSE /\ loc' = [loc EXCEPT ![p] =
                    [chain |-> turn.chain,
                     current_issuer_id |-> turn.current_issuer_id]]
             /\ UNCHANGED <<pc, res>>
    /\ UNCHANGED <<cas, certs, crl, now, nextKey, req, users, orgs>>

\* ------------------------------------------------------------- create_user
\* select(User).where(User.username == username), and the same for email
GetUserBy(field, value) ==
    LET found == {u \in DOMAIN users : users[u][field] = value} IN
    IF found = {} THEN None ELSE users[CHOOSE u \in found : TRUE]

\* get_current_user of the token, None where there is no token
CurrentUser(token) == IF token = NoId THEN None ELSE Get(users, token[1])

\* the workers that have a user to insert
CreatingUser == {q \in Procs : pc[q] = "create_user_commit"}

\* the condition of the 403: an admin or superuser is asked for, there is a
\* user in the system, and the caller is no superuser
Forbidden(role, first_user, current_user) ==
    /\ role \in {"admin", "superuser"}
    /\ ~first_user
    /\ current_user = None \/ current_user.role /= "superuser"

\* the handler up to user_service.create_user's commit: the selects by
\* username and by email, the caller, the select of any user
CreateUserLoad(p, login, role, organization_id, token) ==
    /\ Idle(p)
    /\ Cardinality(DOMAIN users) + Cardinality(CreatingUser) < MaxUsers
    /\ req' = [req EXCEPT ![p] = [op |-> "create_user", username |-> login.username,
                                  email |-> login.email, role |-> role,
                                  organization_id |-> organization_id, token |-> token]]
    /\ LET current_user == CurrentUser(token)
           first_user == DOMAIN users = {}
       IN IF GetUserBy("username", login.username) /= None
          THEN Finish(p, [status |-> 400, body |-> None])
          ELSE IF GetUserBy("email", login.email) /= None
          THEN Finish(p, [status |-> 400, body |-> None])
          ELSE IF Forbidden(role, first_user, current_user)
          THEN Finish(p, [status |-> 403, body |-> None])
          ELSE /\ loc' = [loc EXCEPT ![p] =
                    [user |-> [id |-> 0, username |-> login.username,
                               email |-> login.email, role |-> role,
                               organization_id |-> organization_id],
                     current_user |-> current_user,
                     first_user |-> first_user]]
               /\ pc' = [pc EXCEPT ![p] = "create_user_commit"]
               /\ UNCHANGED res
    /\ UNCHANGED <<pki, users, orgs>>

\* db.add(user); db.commit(): the unique indexes of username and email fail the
\* insert of a second row with the same value
CreateUserCommit(p) ==
    /\ pc[p] = "create_user_commit"
    /\ LET row == [loc[p].user EXCEPT !.id = NextId(users)] IN
        IF GetUserBy("username", row.username) /= None \/ GetUserBy("email", row.email) /= None
        THEN /\ Finish(p, [status |-> 500, body |-> None])
             /\ UNCHANGED users
        ELSE /\ users' = Put(users, row.id, row)
             /\ Finish(p, Ok(201, row))
    /\ UNCHANGED <<pki, orgs, req>>

\* ------------------------------------------------------------- update_user
\* UserService.update_user, of a role and an organization_id, up to the commit
UpdateUserLoad(p, user_id, role, organization_id) ==
    /\ Idle(p)
    /\ req' = [req EXCEPT ![p] = [op |-> "update_user", user_id |-> user_id,
                                  role |-> role, organization_id |-> organization_id]]
    /\ IF Get(users, user_id) = None
       THEN Finish(p, NotFound)
       ELSE /\ loc' = [loc EXCEPT ![p] = [role |-> role, organization_id |-> organization_id]]
            /\ pc' = [pc EXCEPT ![p] = "update_user_commit"]
            /\ UNCHANGED res
    /\ UNCHANGED <<pki, users, orgs>>

\* the UPDATE of the columns that were assigned
UpdateUserCommit(p) ==
    /\ pc[p] = "update_user_commit"
    /\ LET id == req[p].user_id
           old == users[id]
           row == [old EXCEPT
                    !.role = IF loc[p].role /= NoRole THEN loc[p].role ELSE old.role,
                    !.organization_id = IF loc[p].organization_id /= NoId
                                        THEN loc[p].organization_id
                                        ELSE old.organization_id]
       IN /\ users' = Put(users, id, row)
          /\ Finish(p, Ok(200, row))
    /\ UNCHANGED <<pki, orgs, req>>

\* ------------------------------------------------------------- create_organization
\* the workers that have an organization to insert
CreatingOrg == {q \in Procs : pc[q] = "create_organization_commit"}

GetOrganizationByName(name) ==
    LET found == {o \in DOMAIN orgs : orgs[o].name = name} IN
    IF found = {} THEN None ELSE orgs[CHOOSE o \in found : TRUE]

CreateOrganizationLoad(p, name) ==
    /\ Idle(p)
    /\ NextId(orgs) + Cardinality(CreatingOrg) <= MaxOrgs
    /\ req' = [req EXCEPT ![p] = [op |-> "create_organization", name |-> name]]
    /\ IF GetOrganizationByName(name) /= None
       THEN Finish(p, [status |-> 400, body |-> None])
       ELSE /\ loc' = [loc EXCEPT ![p] = [id |-> 0, name |-> name]]
            /\ pc' = [pc EXCEPT ![p] = "create_organization_commit"]
            /\ UNCHANGED res
    /\ UNCHANGED <<pki, users, orgs>>

\* db.add(org); db.commit(): the unique index of name fails the insert of a
\* second row with the name
CreateOrganizationCommit(p) ==
    /\ pc[p] = "create_organization_commit"
    /\ LET row == [loc[p] EXCEPT !.id = NextId(orgs)] IN
        IF GetOrganizationByName(row.name) /= None
        THEN /\ Finish(p, [status |-> 500, body |-> None])
             /\ UNCHANGED orgs
        ELSE /\ orgs' = Put(orgs, row.id, row)
             /\ Finish(p, Ok(201, row))
    /\ UNCHANGED <<pki, users, req>>

\* ------------------------------------------------------------- delete_organization
\* a lookup that finds no user
GetOrganizationUsersNone(org_id) == {}

\* get_organization_users: select(User).where(User.organization_id == org_id)
GetOrganizationUsers(org_id) ==
    {u \in DOMAIN users : users[u].organization_id = <<org_id>>}

\* delete_organization up to db.delete(org); the API answers False with 400
DeleteOrganizationLoad(p, org_id) ==
    /\ Idle(p)
    /\ req' = [req EXCEPT ![p] = [op |-> "delete_organization", org_id |-> org_id]]
    /\ IF Get(orgs, org_id) = None
       THEN Finish(p, NotFound)
       ELSE IF GetOrganizationUsers(org_id) /= {}
       THEN Finish(p, [status |-> 400, body |-> FALSE])
       ELSE /\ pc' = [pc EXCEPT ![p] = "delete_organization_commit"]
            /\ UNCHANGED <<loc, res>>
    /\ UNCHANGED <<pki, users, orgs>>

\* db.delete(org); db.commit(); return True
DeleteOrganizationCommit(p) ==
    /\ pc[p] = "delete_organization_commit"
    /\ orgs' = Drop(orgs, {req[p].org_id})
    /\ Finish(p, Ok(204, TRUE))
    /\ UNCHANGED <<pki, users, req>>

\* ------------------------------------------------------------- add_user_to_organization
\* user_can_add_user_to_organization
UserCanAddUserToOrganization(admin_user_id, org_id) ==
    LET admin_user == Get(users, admin_user_id) IN
    IF admin_user = None THEN FALSE
    ELSE IF admin_user.role = "superuser" THEN TRUE
    ELSE admin_user.role = "admin" /\ admin_user.organization_id = <<org_id>>

\* add_user_to_organization up to the commit
AddUserToOrganizationLoad(p, user_id, org_id, admin_user_id) ==
    /\ Idle(p)
    /\ req' = [req EXCEPT ![p] = [op |-> "add_user_to_organization", user_id |-> user_id,
                                  org_id |-> org_id, admin_user_id |-> admin_user_id]]
    /\ IF Get(orgs, org_id) = None
       THEN Finish(p, NotFound)
       ELSE IF Get(users, user_id) = None
       THEN Finish(p, NotFound)
       ELSE IF admin_user_id /= NoId /\ ~UserCanAddUserToOrganization(admin_user_id[1], org_id)
       THEN Finish(p, [status |-> 403, body |-> None])
       ELSE /\ pc' = [pc EXCEPT ![p] = "add_user_to_organization_commit"]
            /\ UNCHANGED <<loc, res>>
    /\ UNCHANGED <<pki, users, orgs>>

\* user.organization_id = org_id; db.commit()
AddUserToOrganizationCommit(p) ==
    /\ pc[p] = "add_user_to_organization_commit"
    /\ LET id == req[p].user_id
           row == [users[id] EXCEPT !.organization_id = <<req[p].org_id>>]
       IN /\ users' = Put(users, id, row)
          /\ Finish(p, Ok(200, row))
    /\ UNCHANGED <<pki, orgs, req>>

\* ------------------------------------------------------------- remove_user_from_organization
\* user_can_remove_user_from_organization
UserCanRemoveUserFromOrganization(admin_user_id, user_id) ==
    LET admin_user == Get(users, admin_user_id)
        user == Get(users, user_id)
    IN IF admin_user = None \/ user = None THEN FALSE
       ELSE IF user.organization_id = NoId THEN FALSE
       ELSE IF admin_user.role = "superuser" THEN TRUE
       ELSE admin_user.role = "admin" /\ admin_user.organization_id = user.organization_id

\* remove_user_from_organization up to the commit
RemoveUserFromOrganizationLoad(p, user_id, admin_user_id) ==
    /\ Idle(p)
    /\ req' = [req EXCEPT ![p] = [op |-> "remove_user_from_organization",
                                  user_id |-> user_id, admin_user_id |-> admin_user_id]]
    /\ LET user == Get(users, user_id) IN
       IF user = None
       THEN Finish(p, NotFound)
       ELSE IF user.organization_id = NoId
       THEN Finish(p, Ok(200, user))
       ELSE IF admin_user_id /= NoId /\ ~UserCanRemoveUserFromOrganization(admin_user_id[1], user_id)
       THEN Finish(p, [status |-> 403, body |-> None])
       ELSE /\ pc' = [pc EXCEPT ![p] = "remove_user_from_organization_commit"]
            /\ UNCHANGED <<loc, res>>
    /\ UNCHANGED <<pki, users, orgs>>

\* user.organization_id = None; db.commit()
RemoveUserFromOrganizationCommit(p) ==
    /\ pc[p] = "remove_user_from_organization_commit"
    /\ LET id == req[p].user_id
           row == [users[id] EXCEPT !.organization_id = NoId]
       IN /\ users' = Put(users, id, row)
          /\ Finish(p, Ok(200, row))
    /\ UNCHANGED <<pki, orgs, req>>

\* ------------------------------------------------------------- workers
\* the response is sent and the worker takes the next request
Return(p) ==
    /\ pc[p] = "done"
    /\ pc' = [pc EXCEPT ![p] = "idle"]
    /\ req' = [req EXCEPT ![p] = None]
    /\ res' = [res EXCEPT ![p] = None]
    /\ UNCHANGED <<cas, certs, crl, now, nextKey, loc, users, orgs>>

\* a day passes, up to the given one
Clock(limit) ==
    /\ now < limit
    /\ now' = now + 1
    /\ UNCHANGED <<cas, certs, crl, nextKey, pc, req, loc, res, users, orgs>>

Tick == Clock(MaxTime)

\* the ids a request names: every row's, and one that no row has
CertIds == DOMAIN certs \cup {NextId(certs)}
CAIds == DOMAIN cas \cup {NextId(cas)}

\* the steps of worker p, its requests drawn from the given sets and the key
\* pairs made limited to the given number
Step(p, types, serials, reasons, keys, days, include, names) ==
    \/ \E name \in names : CreateCA(p, name, RootDN, keys)
    \/ \E ca_id \in CAIds \cup DOMAIN certs, certificate_type \in types :
        CreateCertificateBuild(p, ca_id, certificate_type, serials, keys, days, include)
    \/ CreateCertificateCommit(p)
    \/ \E ca_id \in CAIds : DeleteCALoad(p, ca_id)
    \/ DeleteCACommit(p)
    \/ \E cert_id \in CertIds, reason \in reasons :
        RevokeCertificateLoad(p, cert_id, reason)
    \/ RevokeCertificateCommit(p)
    \/ \E cert_id \in CertIds : GetCertificate(p, cert_id)
    \/ \E cert_id \in CertIds : ExportChainLoad(p, cert_id)
    \/ ExportChainLoop(p)
    \/ Return(p)

\* one request at a time
Next == Tick \/ Step(1, SeqTypes, ConcSerials, Reasons, MaxKeys, {NoDays}, {TRUE}, {"Root"})

Spec == Init /\ [][Next]_vars

\* two workers; the requests are drawn from smaller sets and fewer keys are made
NextConc ==
    Tick \/ \E p \in Procs :
        Step(p, ConcTypes, ConcSerials, Reasons, MaxKeysConc, {NoDays}, {TRUE}, {"Root"})

SpecConc == Init /\ [][NextConc]_vars

\* issuing and reading, one request at a time: every certificate type, with and
\* without a validity and a private key, authorities of either name, and a clock
\* that outruns a certificate of one day
NextIssue ==
    \/ Clock(MaxTimeIssue)
    \/ \E name \in Names : CreateCA(1, name, RootDN, MaxKeysIssue)
    \/ \E ca_id \in CAIds, certificate_type \in CertificateType :
        CreateCertificateBuild(1, ca_id, certificate_type, ConcSerials, MaxKeysIssue,
                               IssueDays, BOOLEAN)
    \/ CreateCertificateCommit(1)
    \/ \E cert_id \in CertIds : GetCertificate(1, cert_id)
    \/ \E cert_id \in CertIds : ExportCertificatePrivateKey(1, cert_id)
    \/ Return(1)

SpecIssue == Init /\ [][NextIssue]_vars

\* issuing and reading, one request at a time, the serial numbers drawn from two
\* values
NextSerial ==
    \/ Tick
    \/ CreateCA(1, "Root", RootDN, MaxKeys)
    \/ \E ca_id \in CAIds, certificate_type \in SeqTypes :
        CreateCertificateBuild(1, ca_id, certificate_type, Serials, MaxKeys,
                               {NoDays}, {TRUE})
    \/ CreateCertificateCommit(1)
    \/ \E cert_id \in CertIds : GetCertificate(1, cert_id)
    \/ Return(1)

SpecSerial == Init /\ [][NextSerial]_vars

\* creating authorities and reading their certificates, one request at a time,
\* with every subject_dn of SubjectDNs
NextAuthority ==
    \/ \E subject_dn \in SubjectDNs : CreateCA(1, "Root", subject_dn, MaxKeys)
    \/ \E ca_id \in CAIds : ExportCACertificate(1, ca_id)
    \/ Return(1)

SpecAuthority == Init /\ [][NextAuthority]_vars

\* the ids a request names: every row's, and one that no row has
UserIds == DOMAIN users \cup {NextId(users)}
OrgIds == DOMAIN orgs \cup {NextId(orgs)}
OptionalOrgIds == {NoId} \cup {<<o>> : o \in OrgIds}
OptionalUserIds == {NoId} \cup {<<u>> : u \in DOMAIN users}

\* the requests on the accounts a worker takes up and carries through
StepAccounts(p) ==
    \/ \E login \in Logins, role \in UserRole, organization_id \in OptionalOrgIds, token \in OptionalUserIds :
            CreateUserLoad(p, login, role, organization_id, token)
    \/ CreateUserCommit(p)
    \/ \E user_id \in UserIds, role \in {NoRole}, organization_id \in OptionalOrgIds :
            UpdateUserLoad(p, user_id, role, organization_id)
    \/ UpdateUserCommit(p)
    \/ \E name \in OrgNames : CreateOrganizationLoad(p, name)
    \/ CreateOrganizationCommit(p)
    \/ \E org_id \in OrgIds : DeleteOrganizationLoad(p, org_id)
    \/ DeleteOrganizationCommit(p)
    \/ \E user_id \in UserIds, org_id \in OrgIds, admin_user_id \in OptionalUserIds :
            AddUserToOrganizationLoad(p, user_id, org_id, admin_user_id)
    \/ AddUserToOrganizationCommit(p)
    \/ \E user_id \in UserIds, admin_user_id \in OptionalUserIds :
            RemoveUserFromOrganizationLoad(p, user_id, admin_user_id)
    \/ RemoveUserFromOrganizationCommit(p)
    \/ Return(p)

\* the accounts, one request at a time
NextAccounts == StepAccounts(1)

SpecAccounts == Init /\ [][NextAccounts]_vars

\* the accounts, the requests of two workers interleaved: users created with
\* and without a token, an organization created and deleted, users added to it
NextAccountsConc ==
    \E p \in Procs :
        \/ \E login \in Logins, role \in {"superuser", "user"}, token \in OptionalUserIds :
                CreateUserLoad(p, login, role, NoId, token)
        \/ CreateUserCommit(p)
        \/ CreateOrganizationLoad(p, "Acme")
        \/ CreateOrganizationCommit(p)
        \/ \E org_id \in DOMAIN orgs : DeleteOrganizationLoad(p, org_id)
        \/ DeleteOrganizationCommit(p)
        \/ \E user_id \in DOMAIN users, org_id \in DOMAIN orgs :
                AddUserToOrganizationLoad(p, user_id, org_id, NoId)
        \/ AddUserToOrganizationCommit(p)
        \/ Return(p)

SpecAccountsConc == Init /\ [][NextAccountsConc]_vars

\* two workers that create and delete authorities, issue server certificates
\* and export chains, with key pairs enough for a second authority to be
\* deleted while a certificate is issued under it
NextOrphan ==
    \E p \in Procs :
        \/ CreateCA(p, "Root", RootDN, MaxKeysOrphan)
        \/ \E ca_id \in DOMAIN cas :
                CreateCertificateBuild(p, ca_id, "server", ConcSerials, MaxKeysOrphan, {NoDays}, {TRUE})
        \/ CreateCertificateCommit(p)
        \/ \E ca_id \in DOMAIN cas : DeleteCALoad(p, ca_id)
        \/ DeleteCACommit(p)
        \/ \E cert_id \in DOMAIN certs : ExportChainLoad(p, cert_id)
        \/ ExportChainLoop(p)
        \/ Return(p)

SpecOrphan == Init /\ [][NextOrphan]_vars

\* ============================================================= claims

\* worker p holds the response to a request of this kind
Done(p, op) == pc[p] = "done" /\ req[p].op = op

\* C1: any two distinct stored certificates with the same issuer have
\* different serial numbers.
C1_SerialsDifferPerIssuer ==
    \A c, d \in DOMAIN certs :
        (c /= d /\ certs[c].issuer_id = certs[d].issuer_id)
            => certs[c].serial_number /= certs[d].serial_number

\* C2: create_certificate naming, as issuer, a stored certificate of type ca
\* succeeds, the new certificate is signed with that certificate's key, and its
\* issuer reference resolves to that certificate.
C2_IssuedUnderIntermediate ==
    \A p \in Procs :
        ( /\ Done(p, "create_certificate")
          /\ req[p].ca_id \in DOMAIN certs
          /\ certs[req[p].ca_id].certificate_type = "ca"
          /\ res[p].status = 201 => res[p].body.id /= req[p].ca_id )
        => /\ res[p].status = 201
           /\ res[p].body.certificate.signed_by
                = certs[req[p].ca_id].certificate.public_key
           /\ ResolveIssuer(res[p].body.issuer_id)
                = [kind |-> "certificate", id |-> req[p].ca_id]

\* C3: the chain exported for a leaf that was issued with the id of an
\* intermediate (a certificate of type ca issued under a root) is exactly
\* [leaf, intermediate, root].
C3_ThreeLevelChain ==
    \A p \in Procs :
        ( /\ Done(p, "export_certificate_chain")
          /\ res[p].status = 200
          /\ LET i == certs[req[p].cert_id].issuer_id IN
                /\ i \in DOMAIN certs
                /\ i < req[p].cert_id
                /\ certs[i].certificate_type = "ca"
                /\ certs[i].issuer_id \in DOMAIN cas )
        => LET leaf == certs[req[p].cert_id]
               intermediate == certs[leaf.issuer_id]
           IN PemBlocks(res[p].body)
                = <<leaf.certificate, intermediate.certificate,
                    cas[intermediate.issuer_id].certificate>>

\* C4: the chain exported for a certificate whose issuer is a stored authority
\* is the certificate's PEM, a newline, and the PEM of the authority that
\* signed it: two blocks, leaf first.
C4_RootIssuedChain ==
    \A p \in Procs :
        ( /\ Done(p, "export_certificate_chain")
          /\ req[p].cert_id \in DOMAIN certs
          /\ certs[req[p].cert_id].issuer_id \in DOMAIN cas )
        => LET leaf == certs[req[p].cert_id]
               root == cas[leaf.issuer_id]
           IN /\ res[p].status = 200
              /\ res[p].body = <<leaf.certificate, Newline, root.certificate>>
              /\ PemBlocks(res[p].body) = <<leaf.certificate, root.certificate>>
              /\ leaf.certificate.signed_by = root.certificate.public_key

\* an export has answered with the two blocks of a certificate under a root
C4_Witness ==
    \E p \in Procs :
        /\ Done(p, "export_certificate_chain")
        /\ res[p].status = 200
        /\ Len(PemBlocks(res[p].body)) = 2
        /\ certs[req[p].cert_id].issuer_id \in DOMAIN cas

\* a worker takes up a request of this kind in the step
Starts(p, op) == pc[p] = "idle" /\ pc'[p] /= "idle" /\ req'[p].op = op

\* a worker's commit of this kind ends with this status in the step
Commits(p, at, status) == pc[p] = at /\ pc'[p] = "done" /\ res'[p].status = status

\* C5: a delete_ca of authority A that succeeds leaves no authority A and no
\* certificate whose issuer is A, and the id of every certificate A had issued
\* names no certificate any more, which is when the chain export answers
\* not-found; a delete_ca of an unknown id answers not-found and changes no table.
C5_DeleteCascades ==
    [][\A p \in Procs :
        /\ Commits(p, "delete_ca_commit", 204) =>
            LET a == req[p].ca_id IN
            /\ Get(cas', a) = None
            /\ \A c \in DOMAIN certs' : certs'[c].issuer_id /= a
            /\ \A c \in DOMAIN certs : certs[c].issuer_id = a => Get(certs', c) = None
        /\ (Starts(p, "delete_ca") /\ Get(cas, req'[p].ca_id) = None) =>
            /\ pc'[p] = "done"
            /\ res'[p] = NotFound
            /\ UNCHANGED store
        /\ (Starts(p, "delete_ca") /\ pc'[p] = "done") => Get(cas, req'[p].ca_id) = None
      ]_vars

\* an authority with a revoked certificate has been deleted, and no
\* certificate of it is left
C5_Witness ==
    \E p \in Procs :
        /\ Done(p, "delete_ca")
        /\ res[p].status = 204
        /\ \E i \in 1 .. Len(crl) : crl[i].ca_id = req[p].ca_id
        /\ \A c \in DOMAIN certs : certs[c].issuer_id /= req[p].ca_id

\* C6: no stored certificate has an issuer id that names no stored authority.
C6_NoDanglingIssuer ==
    \A c \in DOMAIN certs : certs[c].issuer_id \in DOMAIN cas

\* C7: a chain export never collects more than the maximum number of blocks
\* (the traversal stops at a fixed depth instead of following a cycle).
C7_ChainDepthLimited ==
    \A p \in Procs :
        pc[p] = "export_chain_loop" => Len(loc[p].chain) <= MaxChain

\* C8: revoke_certificate on a stored certificate, revoked before or not,
\* answers 200 with status revoked and a revocation timestamp, and that is the
\* stored row; a read answers with the stored row; and a stored certificate
\* that is revoked is still revoked, with a timestamp, after any step that
\* keeps it.
C8_RevokeThenRead ==
    /\ [](\A p \in Procs :
            /\ Done(p, "revoke_certificate") =>
                IF req[p].cert_id \in DOMAIN certs
                THEN /\ res[p].status = 200
                     /\ res[p].body = certs[req[p].cert_id]
                     /\ res[p].body.status = "revoked"
                     /\ res[p].body.revoked_at /= NoTime
                ELSE res[p].status = 404
            /\ (Done(p, "get_certificate") /\ req[p].cert_id \in DOMAIN certs) =>
                /\ res[p].status = 200
                /\ res[p].body = certs[req[p].cert_id])
    /\ [][\A c \in DOMAIN certs \cap DOMAIN certs' :
            certs[c].status = "revoked" =>
                certs'[c].status = "revoked" /\ certs'[c].revoked_at /= NoTime
         ]_vars

\* a certificate, the only one stored, has just been revoked for the second time
C8_Witness ==
    \E p \in Procs :
        /\ Done(p, "revoke_certificate")
        /\ res[p].status = 200
        /\ DOMAIN certs = {req[p].cert_id}
        /\ Len(crl) = 2
        /\ \A i \in 1 .. 2 : crl[i].serial_number = res[p].body.serial_number
        /\ res[p].body.status = "revoked"

C10_OneRecordPerRevocation ==
    [][/\ \A p \in Procs :
            Commits(p, "revoke_certificate_commit", 200) =>
                LET cert == certs'[req[p].cert_id] IN
                /\ Len(crl') = Len(crl) + 1
                /\ SubSeq(crl', 1, Len(crl)) = crl
                /\ crl'[Len(crl')].serial_number = cert.serial_number
                /\ crl'[Len(crl')].revocation_date = cert.revoked_at
                /\ cert.revoked_at /= NoTime
       /\ crl' /= crl =>
            \E p \in Procs : Commits(p, "revoke_certificate_commit", 200)
      ]_vars

\* two entries for the one certificate: it was revoked, and revoked again later
C10_Witness ==
    \E p \in Procs :
        /\ Done(p, "revoke_certificate")
        /\ res[p].status = 200
        /\ DOMAIN certs = {req[p].cert_id}
        /\ Len(crl) = 2
        /\ \A i \in 1 .. 2 : crl[i].serial_number = res[p].body.serial_number
        /\ crl[1].revocation_date < crl[2].revocation_date
        /\ crl[2].revocation_date = res[p].body.revoked_at

\* C11: a delete_ca of authority A that succeeds leaves no crl entry whose ca_id
\* is A, and no other step removes or changes a crl entry.
C11_RecordsDieWithAuthority ==
    [][/\ \A p \in Procs :
            Commits(p, "delete_ca_commit", 204) =>
                \A i \in 1 .. Len(crl') : crl'[i].ca_id /= req[p].ca_id
       /\ (\A p \in Procs : ~Commits(p, "delete_ca_commit", 204)) =>
            /\ Len(crl') >= Len(crl)
            /\ SubSeq(crl', 1, Len(crl)) = crl
      ]_vars

\* C12: a create_certificate whose ca_id names no authority and no certificate
\* answers not-found at once and changes no table.
C12_UnknownIssuerRejected ==
    [][\A p \in Procs :
        ( /\ Starts(p, "create_certificate")
          /\ req'[p].ca_id \notin DOMAIN cas \cup DOMAIN certs )
        => /\ pc'[p] = "done"
           /\ res'[p] = [status |-> 404, body |-> None]
           /\ UNCHANGED store
      ]_vars

\* a create_certificate was answered not-found for an id that names nothing,
\* in a store that holds an authority and a certificate
C12_Witness ==
    \E p \in Procs :
        /\ Done(p, "create_certificate")
        /\ res[p].status = 404
        /\ req[p].ca_id \notin DOMAIN cas \cup DOMAIN certs
        /\ DOMAIN cas /= {}
        /\ DOMAIN certs /= {}

\* C13: a create_certificate whose ca_id is the id of a stored server or client
\* certificate answers not-found; and no stored certificate's issuer id resolves
\* to a server or client certificate.
C13_LeafIssuerRejected ==
    /\ \A p \in Procs :
            ( /\ Done(p, "create_certificate")
              /\ req[p].ca_id \in DOMAIN certs
              /\ certs[req[p].ca_id].certificate_type \in {"server", "client"}
              /\ res[p].status = 201 => res[p].body.id /= req[p].ca_id )
            => res[p].status = 404
    /\ \A c \in DOMAIN certs :
            LET i == certs[c].issuer_id IN
            (i \notin DOMAIN cas /\ i \in DOMAIN certs)
                => certs[i].certificate_type = "ca"

\* C14: a revoke_certificate whose id names no stored certificate answers
\* not-found at once and changes no table: no certificate is modified and no
\* crl entry is appended.
C14_RevokeUnknownRejected ==
    [][\A p \in Procs :
        ( /\ Starts(p, "revoke_certificate")
          /\ req'[p].cert_id \notin DOMAIN certs )
        => /\ pc'[p] = "done"
           /\ res'[p] = [status |-> 404, body |-> None]
           /\ UNCHANGED store
      ]_vars

\* a revoke_certificate was answered not-found in a store that holds a
\* certificate and a crl entry
C14_Witness ==
    \E p \in Procs :
        /\ Done(p, "revoke_certificate")
        /\ res[p].status = 404
        /\ req[p].cert_id \notin DOMAIN certs
        /\ DOMAIN certs /= {}
        /\ Len(crl) > 0

\* C15: a read of a stored certificate that is not revoked answers with status
\* expired if the clock has passed its not_after and with status valid if not;
\* and a stored status changes only when a revocation commits.
C15_LazyExpiry ==
    [][/\ \A p \in Procs :
            ( /\ Starts(p, "get_certificate")
              /\ req'[p].cert_id \in DOMAIN certs
              /\ certs[req'[p].cert_id].status /= "revoked" )
            => /\ res'[p].status = 200
               /\ res'[p].body.status =
                    IF now > certs[req'[p].cert_id].not_after
                    THEN "expired" ELSE "valid"
       /\ \A c \in DOMAIN certs \cap DOMAIN certs' :
            certs'[c].status /= certs[c].status =>
                \E p \in Procs : Commits(p, "revoke_certificate_commit", 200)
      ]_vars

\* C16: a certificate that create_certificate answers with has
\* not_before <= not_after, not_after - not_before equal to the valid_days of
\* the request (CERT_DAYS when the request gave none), and that number stored
\* as its valid_days.
C16_ValidityAsRequested ==
    \A p \in Procs :
        (Done(p, "create_certificate") /\ res[p].status = 201) =>
            LET days == IF req[p].valid_days = NoDays THEN CERT_DAYS
                        ELSE req[p].valid_days[1]
                cert == res[p].body
            IN /\ cert.not_before <= cert.not_after
               /\ cert.not_after - cert.not_before = days
               /\ cert.valid_days = days

\* C17: an authority's certificate has basicConstraints CA, keyCertSign and
\* cRLSign, no extended key usage, a subject key identifier of its own key and
\* no authority key identifier; a stored certificate has basicConstraints CA,
\* keyCertSign and cRLSign exactly if its type is ca, the extended key usage
\* serverAuth for server, clientAuth for client and none for ca, a subject key
\* identifier of its own key, and for authority key identifier the subject key
\* identifier of its issuer.
C17_ExtensionsByRole ==
    /\ \A a \in DOMAIN cas :
            LET cert == cas[a].certificate
                e == cert.extensions
            IN /\ e.basic_constraints
               /\ {"key_cert_sign", "crl_sign"} \subseteq e.key_usage
               /\ e.extended_key_usage = {}
               /\ e.subject_key_identifier = <<cert.public_key>>
               /\ e.authority_key_identifier = <<>>
    /\ \A c \in DOMAIN certs :
            LET cert == certs[c].certificate
                e == cert.extensions
                type == certs[c].certificate_type
            IN /\ e.basic_constraints <=> type = "ca"
               /\ "key_cert_sign" \in e.key_usage <=> type = "ca"
               /\ "crl_sign" \in e.key_usage <=> type = "ca"
               /\ type = "server" => e.extended_key_usage = {"serverAuth"}
               /\ type = "client" => e.extended_key_usage = {"clientAuth"}
               /\ type = "ca" => e.extended_key_usage = {}
               /\ e.subject_key_identifier = <<cert.public_key>>
               /\ e.authority_key_identifier /= <<>>
               /\ certs[c].issuer_id \in DOMAIN cas =>
                    e.authority_key_identifier =
                        cas[certs[c].issuer_id].certificate.extensions.subject_key_identifier

\* a client certificate is stored under its authority
C17_Witness ==
    \E c \in DOMAIN certs :
        /\ certs[c].certificate_type = "client"
        /\ certs[c].issuer_id \in DOMAIN cas
        /\ certs[c].certificate.extensions.extended_key_usage = {"clientAuth"}

\* C18: every certificate has digitalSignature; a certificate has
\* keyEncipherment exactly if its type is server or client: an authority's own
\* certificate and a stored certificate of type ca have not.
C18_KeyUsageByRole ==
    /\ \A a \in DOMAIN cas :
            LET usage == cas[a].certificate.extensions.key_usage IN
            /\ "digital_signature" \in usage
            /\ "key_encipherment" \notin usage
    /\ \A c \in DOMAIN certs :
            LET usage == certs[c].certificate.extensions.key_usage IN
            /\ "digital_signature" \in usage
            /\ "key_encipherment" \in usage
                    <=> certs[c].certificate_type \in {"server", "client"}

\* C19: a certificate that create_certificate answers with carries the public
\* half of a key pair no other row has, is the stored row, and has for private
\* key that pair's private half if include_private_key and None if not; the
\* private-key export of a stored certificate answers not-found if its
\* private key is None and with the stored private key, the pair of the
\* certificate's public key, if not.
C19_PrivateKeyOnRequest ==
    \A p \in Procs :
        /\ (Done(p, "create_certificate") /\ res[p].status = 201) =>
            LET cert == res[p].body
                k == cert.certificate.public_key
            IN /\ certs[cert.id] = cert
               /\ \A a \in DOMAIN cas : cas[a].certificate.public_key /= k
               /\ \A d \in DOMAIN certs \ {cert.id} :
                    certs[d].certificate.public_key /= k
               /\ IF req[p].include_private_key
                  THEN cert.private_key = PrivateKeyPem(k)
                  ELSE cert.private_key = None
        /\ (Done(p, "export_certificate_private_key")
                /\ req[p].cert_id \in DOMAIN certs) =>
            LET cert == certs[req[p].cert_id] IN
            IF cert.private_key = None
            THEN res[p].status = 404
            ELSE /\ res[p].status = 200
                 /\ res[p].body = cert.private_key
                 /\ res[p].body.key = cert.certificate.public_key

\* the private-key export of a stored certificate issued without
\* include_private_key was answered not-found
C19_Witness ==
    \E p \in Procs :
        /\ Done(p, "export_certificate_private_key")
        /\ req[p].cert_id \in DOMAIN certs
        /\ certs[req[p].cert_id].private_key = None
        /\ certs[req[p].cert_id].certificate.public_key > 0
        /\ res[p].status = 404

\* C20: no two stored authorities have the same name.
C20_AuthorityNamesUnique ==
    \A a, b \in DOMAIN cas : a /= b => cas[a].name /= cas[b].name

\* C21: a create_ca whose subject_dn parses to a name with no attribute is
\* answered with a failure and stores no authority.
C21_EmptyNameRejected ==
    [][\A p \in Procs :
        ( /\ Starts(p, "create_ca")
          /\ Segments(req'[p].subject_dn) /= <<>>
          /\ \A i \in DOMAIN Segments(req'[p].subject_dn) :
                LET segment == Segments(req'[p].subject_dn)[i] IN
                segment.ok /\ segment.key \notin {"CN", "O", "OU", "C", "ST", "L"} )
        => /\ res'[p].status = 400
           /\ cas' = cas
      ]_vars

\* the attributes a subject_dn names, segment by segment in the order of the
\* string, without the segments whose key is not recognized
InputOrder(subject_dn) ==
    LET recognized(segment) == segment.key \in {"CN", "O", "OU", "C", "ST", "L"}
        kept == SelectSeq(Segments(subject_dn), recognized)
    IN [i \in 1 .. Len(kept) |-> [oid |-> kept[i].key, value |-> kept[i].value]]

\* C22: the subject of a stored authority's certificate has the attributes of
\* its subject_dn in the order of the string: one attribute for each segment
\* with a recognized key, none lost.
C22_NameKeepsInputOrder ==
    \A a \in DOMAIN cas :
        cas[a].certificate.subject = InputOrder(cas[a].subject_dn)

C24_AuthoritySelfSigned ==
    \A a \in DOMAIN cas :
        LET cert == cas[a].certificate IN
        /\ cert.issuer = cert.subject
        /\ cert.signed_by = cert.public_key
        /\ cas[a].private_key = PrivateKeyPem(cert.public_key)
        /\ \A b \in DOMAIN cas \ {a} : cas[b].certificate.public_key /= cert.public_key
        /\ "issuer_id" \notin DOMAIN cas[a]

\* two authorities are stored, one of them with a subject of two attributes
C24_Witness ==
    \E a, b \in DOMAIN cas :
        /\ a /= b
        /\ Len(cas[a].certificate.subject) = 2
        /\ cas[a].certificate.issuer = cas[a].certificate.subject

\* C27: the crl entry a revoke_certificate appends has for ca_id the issuer_id
\* of the certificate it revokes, which is the authority that signed it.
C27_RecordNamesImmediateIssuer ==
    [][\A p \in Procs :
        Commits(p, "revoke_certificate_commit", 200) =>
            LET cert == certs[req[p].cert_id]
                entry == crl'[Len(crl')]
            IN /\ entry.ca_id = cert.issuer_id
               /\ entry.serial_number = cert.serial_number
               /\ cert.issuer_id \in DOMAIN cas =>
                    cert.certificate.signed_by = cas[entry.ca_id].certificate.public_key
      ]_vars

\* a certificate of the second authority has been revoked while the first
\* authority is stored, and the entry names the second
C27_Witness ==
    \E p \in Procs :
        /\ Done(p, "revoke_certificate")
        /\ res[p].status = 200
        /\ res[p].body.issuer_id = 2
        /\ {1, 2} \subseteq DOMAIN cas
        /\ crl[Len(crl)].ca_id = 2

\* C28: a revoke_certificate that succeeds changes, of the certificate it names,
\* the status and revoked_at and nothing else, changes no other certificate and
\* no authority, and appends one crl entry after the ones there were; a
\* create_certificate that succeeds adds one certificate and changes no stored
\* certificate, no authority and no crl entry.
C28_FrameOfRevokeAndIssue ==
    [][\A p \in Procs :
        /\ Commits(p, "revoke_certificate_commit", 200) =>
            LET id == req[p].cert_id IN
            /\ DOMAIN certs' = DOMAIN certs
            /\ [certs'[id] EXCEPT !.status = certs[id].status,
                                  !.revoked_at = certs[id].revoked_at] = certs[id]
            /\ \A c \in DOMAIN certs \ {id} : certs'[c] = certs[c]
            /\ cas' = cas
            /\ Len(crl') = Len(crl) + 1
            /\ SubSeq(crl', 1, Len(crl)) = crl
        /\ Commits(p, "create_certificate_commit", 201) =>
            /\ Cardinality(DOMAIN certs') = Cardinality(DOMAIN certs) + 1
            /\ \A c \in DOMAIN certs : c \in DOMAIN certs' /\ certs'[c] = certs[c]
            /\ cas' = cas
            /\ crl' = crl
      ]_vars

\* a certificate has been revoked while a second certificate, issued after it
\* by the same authority, is stored and still valid
C28_Witness ==
    \E p \in Procs :
        /\ Done(p, "revoke_certificate")
        /\ res[p].status = 200
        /\ \E d \in DOMAIN certs :
            /\ d > req[p].cert_id
            /\ certs[d].status = "valid"
            /\ certs[d].issuer_id = res[p].body.issuer_id
        /\ Len(crl) = 1

\* C29: a stored certificate that is revoked is, after any step, still stored
\* as revoked with a revoked_at no earlier than before, unless the step is the
\* deletion of its authority; and a read of it answers with status revoked.
C29_RevocationIrreversible ==
    [][/\ \A c \in DOMAIN certs :
            certs[c].status = "revoked" =>
                IF c \in DOMAIN certs'
                THEN /\ certs'[c].status = "revoked"
                     /\ certs'[c].revoked_at /= NoTime
                     /\ certs'[c].revoked_at >= certs[c].revoked_at
                ELSE \E p \in Procs :
                        /\ Commits(p, "delete_ca_commit", 204)
                        /\ req[p].ca_id = certs[c].issuer_id
       /\ \A p \in Procs :
            ( /\ Starts(p, "get_certificate")
              /\ req'[p].cert_id \in DOMAIN certs
              /\ certs[req'[p].cert_id].status = "revoked" )
            => res'[p].body.status = "revoked"
      ]_vars

\* C25: a delete_organization of a stored organization that a user belongs to
\* answers False and changes no organization and no user; one that answers
\* True was of an organization no user belonged to, and removes that
\* organization and nothing else.
C25_DeleteOrganizationNeedsNoUsers ==
    [][\A p \in Procs :
        /\ ( /\ Starts(p, "delete_organization")
             /\ req'[p].org_id \in DOMAIN orgs
             /\ \E u \in DOMAIN users : users[u].organization_id = <<req'[p].org_id>> )
           => /\ pc'[p] = "done"
              /\ res'[p].status = 400
              /\ res'[p].body = FALSE
              /\ users' = users
              /\ orgs' = orgs
        /\ Commits(p, "delete_organization_commit", 204) =>
            /\ res'[p].body = TRUE
            /\ \A u \in DOMAIN users : users[u].organization_id /= <<req[p].org_id>>
            /\ orgs' = Drop(orgs, {req[p].org_id})
            /\ req[p].org_id \in DOMAIN orgs
            /\ users' = users
      ]_vars

\* a delete_organization was answered False, and the organization and its
\* user are stored, next to an organization without users
C25_Witness ==
    \E p \in Procs :
        /\ Done(p, "delete_organization")
        /\ res[p].status = 400
        /\ res[p].body = FALSE
        /\ req[p].org_id \in DOMAIN orgs
        /\ \E u \in DOMAIN users : users[u].organization_id = <<req[p].org_id>>
        /\ \E o \in DOMAIN orgs :
                \A u \in DOMAIN users : users[u].organization_id /= <<o>>

\* C26: a create_user that stores a user with role admin or superuser has for
\* caller a stored superuser, or stores the first user of an empty table.
C26_ElevatedNeedsSuperuser ==
    [][\A p \in Procs :
        ( /\ Commits(p, "create_user_commit", 201)
          /\ req[p].role \in {"admin", "superuser"}
          /\ ~( /\ req[p].token /= NoId
                /\ req[p].token[1] \in DOMAIN users
                /\ users[req[p].token[1]].role = "superuser" ) )
        => DOMAIN users = {}
      ]_vars

\* C30: the organization_id of every stored user is None or the id of a stored
\* organization.
C30_UserOrganizationExists ==
    \A u \in DOMAIN users :
        users[u].organization_id = NoId
            \/ users[u].organization_id[1] \in DOMAIN orgs

====
